---- MODULE Spec2Model ----
(***************************************************************************)
(* The listing store, the generate and PDF endpoints and the HTML helpers  *)
(* of the real-estate listing server (src/unnamed/part_001, lines 1..603), *)
(* and the in-memory listing history of src/routes/listings.js.            *)
(*                                                                         *)
(* JavaScript values are tagged records [t, v] (v always a string), texts  *)
(* are sequences of one-character strings, and the backing file is a       *)
(* record of what the fs calls can observe of it.                          *)
(***************************************************************************)
EXTENDS Integers, Sequences, FiniteSets, TLC

VARIABLES fs, last, saved, serial, pending, overlap, pdf, input, output,
          savedListings, hasOpenAIKey, aiHits, copywriterCalled

vars == <<fs, last, saved, serial, pending, overlap, pdf, input, output,
          savedListings, hasOpenAIKey, aiHits, copywriterCalled>>

(***************************************************************************)
(* Bounds of the model.                                                    *)
(***************************************************************************)
MaxStore == 3
MaxPending == 2
MaxPdfReqs == 2
MaxPriceLen == 5
MaxFieldLen == 3

(***************************************************************************)
(* JavaScript values as they arrive in a parsed JSON body.                 *)
(***************************************************************************)
JsStr(s) == [t |-> "str", v |-> s]
JsNum(n) == [t |-> "num", v |-> n]
JsUndef == [t |-> "undef", v |-> ""]
JsNull == [t |-> "null", v |-> ""]
\* An object, here {"toString": 1}: truthy, and not convertible to a string.
JsObject == [t |-> "obj", v |-> "toString"]

\* !x of JavaScript, negated: the value is truthy.
Truthy(x) ==
  CASE x.t = "str" -> x.v # ""
    [] x.t = "num" -> x.v # "0"
    [] x.t = "obj" -> TRUE
    [] OTHER -> FALSE

\* x === p where p is a route parameter, which Express always gives as a string.
StrictEqParam(x, p) == x.t = "str" /\ x.v = p

\* The path segment a client writes for a text or a number used as an id:
\* String(x), percent-encoded and decoded again by the router.  String(x)
\* throws on the object, which has no path segment.
ParamOf(x) == CASE x.t \in {"str", "num"} -> x.v

\* Ids the save validation accepts (any truthy value): those a request path
\* can name, and the object.
GoodIds == {JsStr("a"), JsStr("b"), JsNum("7")}
BadIds == {JsUndef, JsStr(""), JsNull, JsNum("0")}
Titles == {JsStr("Cozy"), JsUndef}
Bodies == [id : GoodIds \cup BadIds \cup {JsObject}, title : Titles]
Params == {"a", "b", "7", "z"}
NoBody == [id |-> JsUndef, title |-> JsUndef]

(***************************************************************************)
(* The backing file data/listings.json as fs sees it.                      *)
(***************************************************************************)
ArrayDoc(listings) == [json |-> "array", data |-> listings]
InvalidDoc == [json |-> "invalid", data |-> <<>>]
\* A JSON value that is not an array and has no length: an object such as {},
\* a number, true or false.
ObjectDoc == [json |-> "object", data |-> <<>>]
\* The JSON text null.
NullDoc == [json |-> "null", data |-> <<>>]
\* A JSON object with a numeric length key: {"length": n}.
ObjectWithLength(n) == [json |-> "object", data |-> <<[key |-> "length", val |-> n]>>]
\* A JSON string, of the characters in text.
StringDoc(text) ==
  [json |-> "string", data |-> [i \in 1..Len(text) |-> [char |-> text[i]]]]

\* JSON.stringify(listings, null, 2): the text of a JSON array of the records.
JSONstringify(listings) == ArrayDoc(listings)

\* JSON.parse(raw): throws on text that is not JSON.
JSONparse(doc) == [threw |-> doc.json = "invalid", val |-> doc]

\* Array.isArray(parsed)
IsArray(parsed) == parsed.json = "array"

ensureDataFile(f) ==
  IF f.exists THEN [threw |-> FALSE, fs |-> f]
  ELSE IF f.writable
    THEN [threw |-> FALSE,
          fs |-> [f EXCEPT !.exists = TRUE, !.readable = TRUE,
                           !.doc = JSONstringify(<<>>)]]
    ELSE [threw |-> TRUE, fs |-> f]

readListings(f) ==
  LET e == ensureDataFile(f) IN
  IF e.threw THEN [threw |-> TRUE, fs |-> e.fs, val |-> <<>>]
  ELSE IF ~e.fs.readable THEN [threw |-> FALSE, fs |-> e.fs, val |-> <<>>]
  ELSE LET parsed == JSONparse(e.fs.doc) IN
       IF parsed.threw THEN [threw |-> FALSE, fs |-> e.fs, val |-> <<>>]
       ELSE [threw |-> FALSE, fs |-> e.fs,
             val |-> IF IsArray(parsed.val) THEN parsed.val.data ELSE <<>>]

writeListings(f, listings) ==
  LET e == ensureDataFile(f) IN
  IF e.threw \/ ~e.fs.writable THEN [threw |-> TRUE, fs |-> e.fs]
  ELSE [threw |-> FALSE, fs |-> [e.fs EXCEPT !.doc = JSONstringify(listings)]]

\* What a reader of the store sees: the sequence readListings returns.
Stored(f) == readListings(f).val

(***************************************************************************)
(* Array helpers of the route handlers.                                    *)
(***************************************************************************)
\* listings.unshift(listing)
unshift_Alone(listings, listing) == <<listing>>
unshift_AtEnd(listings, listing) == Append(listings, listing)
unshift(listings, listing) == <<listing>> \o listings

\* listings.filter((l) => l.id !== req.params.id)
KeepsOther_Inverted(l, p) == StrictEqParam(l.id, p)
KeepsOther(l, p) == ~StrictEqParam(l.id, p)
filterOut_FirstOnly(listings, p) ==
  LET M == {i \in 1..Len(listings) : StrictEqParam(listings[i].id, p)} IN
  IF M = {} THEN listings
  ELSE LET f == CHOOSE i \in M : \A j \in M : i <= j IN
       SubSeq(listings, 1, f - 1) \o SubSeq(listings, f + 1, Len(listings))
filterOut(listings, p) == SelectSeq(listings, LAMBDA l : KeepsOther(l, p))

\* listings.find((l) => l.id === req.params.id): the index of the first match,
\* 0 for undefined.
findIndex_Last(listings, p) ==
  IF \E i \in 1..Len(listings) : StrictEqParam(listings[i].id, p)
  THEN CHOOSE i \in 1..Len(listings) :
         /\ StrictEqParam(listings[i].id, p)
         /\ \A j \in (i + 1)..Len(listings) : ~StrictEqParam(listings[j].id, p)
  ELSE 0
findIndex(listings, p) ==
  IF \E i \in 1..Len(listings) : StrictEqParam(listings[i].id, p)
  THEN CHOOSE i \in 1..Len(listings) :
         /\ StrictEqParam(listings[i].id, p)
         /\ \A j \in 1..(i - 1) : ~StrictEqParam(listings[j].id, p)
  ELSE 0

(***************************************************************************)
(* The store's route handlers.  Each is synchronous: it runs from the      *)
(* request to the response without yielding to the event loop.  A handler  *)
(* gives the file it leaves, the status it answers and the listing the     *)
(* answer carries (NoBody when none).                                      *)
(***************************************************************************)
Answer(f, status, listing) == [fs |-> f, status |-> status, listing |-> listing]

\* app.post("/api/listings/save")
SaveValidates_Always(listing) == TRUE
SaveValidates(listing) == Truthy(listing.id)
SaveHandler(f, listing) ==
  IF ~SaveValidates(listing) THEN Answer(f, 400, NoBody)
  ELSE LET r == readListings(f) IN
       IF r.threw THEN Answer(r.fs, 500, NoBody)
       ELSE LET w == writeListings(r.fs, unshift(r.val, listing)) IN
            IF w.threw THEN Answer(w.fs, 500, NoBody)
            ELSE Answer(w.fs, 200, NoBody)

\* app.delete("/api/listings/:id")
DeleteHandler(f, p) ==
  LET r == readListings(f) IN
  IF r.threw THEN Answer(r.fs, 500, NoBody)
  ELSE LET w == writeListings(r.fs, filterOut(r.val, p)) IN
       IF w.threw THEN Answer(w.fs, 500, NoBody)
       ELSE Answer(w.fs, 200, NoBody)

\* app.get("/api/listings/:id")
GetHandler(f, p) ==
  LET r == readListings(f) IN
  IF r.threw THEN Answer(r.fs, 500, NoBody)
  ELSE LET i == findIndex(r.val, p) IN
       IF i = 0 THEN Answer(r.fs, 404, NoBody)
       ELSE Answer(r.fs, 200, r.val[i])

(***************************************************************************)
(* Files the server can find at start-up.                                  *)
(***************************************************************************)
File(exists, readable, writable, doc) ==
  [exists |-> exists, readable |-> readable, writable |-> writable, doc |-> doc]
MissingFile(writable) == File(FALSE, TRUE, writable, InvalidDoc)

\* A data directory the process may write, holding no file, a file that is not
\* JSON, a JSON object, or an empty array.
HealthyFiles ==
  {MissingFile(TRUE)} \cup
  {File(TRUE, TRUE, TRUE, d) : d \in {InvalidDoc, ObjectDoc, ArrayDoc(<<>>)}}

(***************************************************************************)
(* History variables.  last: the request handled last and its answer.      *)
(* saved[x]: the record saved under id x while no stored record had that   *)
(* id, kept for as long as only other ids are saved and deleted.  serial:  *)
(* the successful saves and deletes applied one after another, in the      *)
(* order they completed.                                                   *)
(***************************************************************************)
Last(op, body, param, a, removed) ==
  [op |-> op, body |-> body, param |-> param, status |-> a.status,
   listing |-> a.listing, removed |-> removed]
NoLast == [op |-> "none", body |-> NoBody, param |-> "", status |-> 0,
           listing |-> NoBody, removed |-> 0]

HasId(listings, x) == \E i \in 1..Len(listings) : listings[i].id = x

SavedAfterSave(listing, a) ==
  IF a.status # 200 THEN saved
  ELSE [x \in GoodIds |->
          IF x # listing.id THEN saved[x]
          ELSE IF HasId(Stored(fs), x) THEN NoBody ELSE listing]
SavedAfterDelete(p, a) ==
  IF a.status # 200 THEN saved
  ELSE [x \in GoodIds |-> IF ParamOf(x) = p THEN NoBody ELSE saved[x]]

SerialAfterSave(listing, a) ==
  IF a.status = 200 THEN <<listing>> \o serial ELSE serial
SerialAfterDelete(p, a) ==
  IF a.status = 200
  THEN SelectSeq(serial, LAMBDA l : ~(l.id.t = "str" /\ l.id.v = p))
  ELSE serial

(***************************************************************************)
(* The variables of the generate endpoints (hasOpenAIKey, the requests the *)
(* rate limiter has counted in its window, whether the Copywriter was ever *)
(* called) and of the in-memory history                                    *)
(* (savedListings), and their values in a specification that does not      *)
(* exercise them.                                                          *)
(***************************************************************************)
restVars == <<savedListings, hasOpenAIKey, aiHits, copywriterCalled>>
restIdle ==
  /\ savedListings = ArrayDoc(<<>>)
  /\ hasOpenAIKey = FALSE
  /\ aiHits = 0
  /\ copywriterCalled = FALSE

(***************************************************************************)
(* Spec: the store endpoints, one request handled per step.                *)
(***************************************************************************)
otherVarsIdle ==
  /\ pending = <<>>
  /\ overlap = FALSE
  /\ pdf = <<>>
  /\ restIdle
  /\ input = <<>>
  /\ output = <<>>

Init ==
  /\ fs \in HealthyFiles
  /\ last = NoLast
  /\ saved = [x \in GoodIds |-> NoBody]
  /\ serial = <<>>
  /\ otherVarsIdle

Save(listing) ==
  /\ SaveValidates(listing) => Len(Stored(fs)) < MaxStore
  /\ LET a == SaveHandler(fs, listing) IN
     /\ fs' = a.fs
     /\ last' = Last("save", listing, "", a, 0)
     /\ saved' = SavedAfterSave(listing, a)
     /\ serial' = SerialAfterSave(listing, a)
  /\ UNCHANGED <<pending, overlap, pdf, input, output>>
  /\ UNCHANGED restVars

Delete(p) ==
  /\ LET a == DeleteHandler(fs, p) IN
     /\ fs' = a.fs
     /\ last' = Last("delete", NoBody, p, a, Len(Stored(fs)) - Len(Stored(a.fs)))
     /\ saved' = SavedAfterDelete(p, a)
     /\ serial' = SerialAfterDelete(p, a)
  /\ UNCHANGED <<pending, overlap, pdf, input, output>>
  /\ UNCHANGED restVars

Get(p) ==
  /\ LET a == GetHandler(fs, p) IN
     /\ fs' = a.fs
     /\ last' = Last("get", NoBody, p, a, 0)
  /\ UNCHANGED <<saved, serial, pending, overlap, pdf, input, output>>
  /\ UNCHANGED restVars

Next ==
  \/ \E listing \in Bodies : Save(listing)
  \/ \E p \in Params : Delete(p)
  \/ \E p \in Params : Get(p)

Spec == Init /\ [][Next]_vars

(***************************************************************************)
(* Claims about the store endpoints (specification Spec).                  *)
(***************************************************************************)

\* C1: a record saved under an id that no stored record had is what a later
\* GET /api/listings/<that id> answers, with the same field values, as long as
\* only other ids were saved and deleted in between.
C1_SavedRecordIsReturned ==
  last.op = "get" =>
    \A x \in GoodIds :
      (saved[x] # NoBody /\ ParamOf(x) = last.param) =>
        (last.status = 200 /\ last.listing = saved[x])

\* C2: a delete of an id that no stored record has leaves the stored sequence
\* as it was and answers as every delete does (200, ok, no listing); a second
\* delete of the same id leaves the store of the first.
C2_DeleteOfMissingIdChangesNothing ==
  [][last'.op = "delete" =>
       /\ last'.status = 200 /\ last'.listing = NoBody
       /\ findIndex(Stored(fs), last'.param) = 0 => Stored(fs') = Stored(fs)
       /\ Stored(DeleteHandler(fs', last'.param).fs) = Stored(fs')]_vars

\* C2 witness: a delete that matched nothing was answered 200 on a store that
\* holds records.
C2_Witness ==
  /\ last.op = "delete" /\ last.status = 200 /\ last.removed = 0
  /\ Len(Stored(fs)) > 0

\* C4: a save whose record has no id (absent, empty, or any other falsy value)
\* is answered 400 and leaves the backing file exactly as it was.
C4_SaveWithoutIdIsRejected ==
  [][(last'.op = "save" /\ ~Truthy(last'.body.id)) =>
       (last'.status = 400 /\ fs' = fs)]_vars

\* C4 witness: a save with an absent id was answered 400 while the store held
\* records.
C4_Witness ==
  /\ last.op = "save" /\ last.body.id = JsUndef /\ last.status = 400
  /\ Len(Stored(fs)) > 0

\* C5: no two stored records have the same id.
C5_StoredIdsAreUnique ==
  \A i, j \in 1..Len(Stored(fs)) :
    i # j => Stored(fs)[i].id # Stored(fs)[j].id

(***************************************************************************)
(* SpecRead: readListings and the list endpoint on every file the process  *)
(* can meet: missing or present, readable or not, in a directory it may    *)
(* write or not, holding text that is not JSON, a JSON object, or an array *)
(* of records.  input keeps the file as it was before the first read,      *)
(* output the result of the last call.                                     *)
(***************************************************************************)
Records == [id : GoodIds, title : Titles]

RECURSIVE SeqsUpTo(_, _)
SeqsUpTo(S, n) ==
  IF n = 0 THEN {<<>>}
  ELSE LET shorter == SeqsUpTo(S, n - 1) IN
       shorter \cup {<<x>> \o q : x \in S, q \in {r \in shorter : Len(r) = n - 1}}

Docs == {InvalidDoc, ObjectDoc} \cup {ArrayDoc(q) : q \in SeqsUpTo(Records, MaxStore)}

AllFiles ==
  {MissingFile(w) : w \in BOOLEAN} \cup
  {File(TRUE, r, w, d) : r \in BOOLEAN, w \in BOOLEAN, d \in Docs}

\* app.get("/api/listings"): no try/catch; an exception reaches Express's
\* default error handler, which answers 500.
ListHandler(f) ==
  LET r == readListings(f) IN
  IF r.threw THEN [fs |-> r.fs, status |-> 500, listings |-> <<>>]
  ELSE [fs |-> r.fs, status |-> 200, listings |-> r.val]

NoOutput == [call |-> "none", threw |-> FALSE, status |-> 0, val |-> <<>>]

InitRead ==
  /\ fs \in AllFiles
  /\ input = fs
  /\ output = NoOutput
  /\ last = NoLast
  /\ saved = [x \in GoodIds |-> NoBody]
  /\ serial = <<>>
  /\ pending = <<>>
  /\ overlap = FALSE
  /\ pdf = <<>>
  /\ restIdle

ReadAll ==
  /\ LET r == readListings(fs) IN
     /\ fs' = r.fs
     /\ output' = [call |-> "readListings", threw |-> r.threw, status |-> 0,
                   val |-> r.val]
  /\ UNCHANGED <<input, last, saved, serial, pending, overlap, pdf>>
  /\ UNCHANGED restVars

List ==
  /\ LET a == ListHandler(fs) IN
     /\ fs' = a.fs
     /\ output' = [call |-> "list", threw |-> FALSE, status |-> a.status,
                   val |-> a.listings]
  /\ UNCHANGED <<input, last, saved, serial, pending, overlap, pdf>>
  /\ UNCHANGED restVars

NextRead == ReadAll \/ List

SpecRead == InitRead /\ [][NextRead]_vars

\* The sequence a file holds: its records when it is there, can be read and is
\* a JSON array, and nothing otherwise.
Holds(f) ==
  IF f.exists /\ f.readable /\ f.doc.json = "array" THEN f.doc.data ELSE <<>>

\* C3: readListings never throws, returns the empty sequence for a file that is
\* missing, unreadable, not JSON or not an array, and the stored sequence
\* otherwise.
C3_ReadAllNeverThrows ==
  output.call = "readListings" =>
    (~output.threw /\ output.val = Holds(input))

(***************************************************************************)
(* SpecConc: requests in flight at the same time.  A request arrives (its  *)
(* body is read off the socket) and waits for the event loop; the loop     *)
(* then runs its handler, which is synchronous (readFileSync,              *)
(* writeFileSync, no await), from the read of the file to the response.    *)
(* pending[k] is the request on connection k; its ov flag says that a      *)
(* save or delete that arrived while it was waiting has since completed    *)
(* with success.  overlap says that of the request handled last.           *)
(***************************************************************************)
Slots == 1..MaxPending
ConcBodies == [id : {JsStr("a"), JsStr("b")}, title : {JsStr("Cozy")}]
ConcParams == {"a", "b"}
Idle == [op |-> "idle", body |-> NoBody, param |-> "", ov |-> FALSE]
Request(op, body, param) == [op |-> op, body |-> body, param |-> param, ov |-> FALSE]

PendingSaves == Cardinality({k \in Slots : pending[k].op = "save"})

InitConc ==
  /\ fs \in HealthyFiles
  /\ last = NoLast
  /\ saved = [x \in GoodIds |-> NoBody]
  /\ serial = <<>>
  /\ pending = [k \in Slots |-> Idle]
  /\ overlap = FALSE
  /\ pdf = <<>>
  /\ restIdle
  /\ input = <<>>
  /\ output = <<>>

ArriveSave(k, listing) ==
  /\ pending[k].op = "idle"
  /\ Len(Stored(fs)) + PendingSaves < MaxStore
  /\ pending' = [pending EXCEPT ![k] = Request("save", listing, "")]
  /\ UNCHANGED <<fs, last, saved, serial, overlap, pdf, input, output>>
  /\ UNCHANGED restVars

ArriveDelete(k, p) ==
  /\ pending[k].op = "idle"
  /\ pending' = [pending EXCEPT ![k] = Request("delete", NoBody, p)]
  /\ UNCHANGED <<fs, last, saved, serial, overlap, pdf, input, output>>
  /\ UNCHANGED restVars

\* The event loop leaves request k behind and marks the ones still waiting.
AfterHandling(k, a) ==
  [j \in Slots |->
     IF j = k THEN Idle
     ELSE IF pending[j].op # "idle" /\ a.status = 200
       THEN [pending[j] EXCEPT !.ov = TRUE]
       ELSE pending[j]]

HandleSave(k) ==
  /\ pending[k].op = "save"
  /\ LET a == SaveHandler(fs, pending[k].body) IN
     /\ fs' = a.fs
     /\ last' = Last("save", pending[k].body, "", a, 0)
     /\ saved' = SavedAfterSave(pending[k].body, a)
     /\ serial' = SerialAfterSave(pending[k].body, a)
     /\ overlap' = (pending[k].ov /\ a.status = 200)
     /\ pending' = AfterHandling(k, a)
  /\ UNCHANGED <<pdf, input, output>>
  /\ UNCHANGED restVars

HandleDelete(k) ==
  /\ pending[k].op = "delete"
  /\ LET a == DeleteHandler(fs, pending[k].param) IN
     /\ fs' = a.fs
     /\ last' = Last("delete", NoBody, pending[k].param, a,
                     Len(Stored(fs)) - Len(Stored(a.fs)))
     /\ saved' = SavedAfterDelete(pending[k].param, a)
     /\ serial' = SerialAfterDelete(pending[k].param, a)
     /\ overlap' = (pending[k].ov /\ a.status = 200)
     /\ pending' = AfterHandling(k, a)
  /\ UNCHANGED <<pdf, input, output>>
  /\ UNCHANGED restVars

NextConc ==
  \/ \E k \in Slots, listing \in ConcBodies : ArriveSave(k, listing)
  \/ \E k \in Slots, p \in ConcParams : ArriveDelete(k, p)
  \/ \E k \in Slots : HandleSave(k)
  \/ \E k \in Slots : HandleDelete(k)

SpecConc == InitConc /\ [][NextConc]_vars

\* C6, as stated: of two saves or deletes in flight together that both answer
\* success, the later write discards the other call's effect, so the store is
\* not what the two operations give one after the other.
C6_LaterWriteDiscardsTheOther ==
  overlap => Stored(fs) # serial

\* C6, as the code has it: each handler reads, changes and writes the file
\* without yielding, so requests in flight together are handled one after the
\* other and the store is always what the successful saves and deletes give
\* in the order they completed; no update is lost.
C6_NoUpdateIsLost ==
  Stored(fs) = serial

\* C6 witness: a save answered 200 after another request, in flight with it,
\* had completed with success, and the store holds both effects.
C6_Witness ==
  /\ overlap /\ last.op = "save" /\ last.status = 200
  /\ Len(Stored(fs)) >= 2

(***************************************************************************)
(* SpecPdf: the two PDF endpoints.  Both handlers are async functions: a   *)
(* step runs one of them from one await to the next, and requests          *)
(* interleave at the awaits.  pdf[r] is request r: its route               *)
(* (and req.params.id), the await it is suspended at (pc), the handler's   *)
(* browser variable, the step that failed (if any), whether page.pdf()     *)
(* resolved, and the responses sent.                                       *)
(* puppeteer is outside the repository: launch, newPage, setContent and    *)
(* pdf each either resolve or reject, and close() ends the browser process *)
(* whether its promise resolves or rejects.                                *)
(***************************************************************************)
PdfReqs == 1..MaxPdfReqs
PdfIdle == [route |-> "none", param |-> "", pc |-> "idle", browser |-> "undefined",
            failed |-> "", exported |-> FALSE, responses |-> <<>>]
PdfFiles ==
  {MissingFile(FALSE), File(TRUE, TRUE, TRUE, ArrayDoc(<<>>)),
   File(TRUE, TRUE, TRUE, ArrayDoc(<<[id |-> JsStr("a"), title |-> JsStr("Cozy")]>>))}
PdfParams == {"a", "z"}

Respond(q, status, type) ==
  [q EXCEPT !.responses = Append(@, [status |-> status, type |-> type])]

\* res.status(200); res.setHeader("Content-Type", "application/pdf"); ... res.end(pdfBuffer)
SendPdf(q) == Respond(q, 200, "application/pdf")

\* catch (err) { return res.status(500).type("text/plain").send(...) }
Catch_Silent(q) == q
Catch(q) == Respond(q, 500, "text/plain")

\* finally { if (browser) await browser.close().catch(() => {}); }
Finally_LeavesBrowser(q) == [q EXCEPT !.pc = "done"]
Finally(q) ==
  IF q.browser = "running" THEN [q EXCEPT !.pc = "closing"]
  ELSE [q EXCEPT !.pc = "done"]

\* An await rejected (or buildPdfHtml threw) at `step`: catch, then finally.
Fails(q, step) == Finally(Catch([q EXCEPT !.failed = step]))

InitPdf ==
  /\ fs \in PdfFiles
  /\ pdf = [r \in PdfReqs |-> PdfIdle]
  /\ restIdle
  /\ last = NoLast
  /\ saved = [x \in GoodIds |-> NoBody]
  /\ serial = <<>>
  /\ pending = <<>>
  /\ overlap = FALSE
  /\ input = <<>>
  /\ output = <<>>

pdfFrame == <<last, saved, serial, pending, overlap, input, output, restVars>>

CanStart(r) == pdf[r].pc \in {"idle", "done"}

\* app.post("/api/pdf") up to `await puppeteer.launch(...)`; buildPdfHtml
\* throws on a body whose field cannot be converted to a string.
PdfPostStart(r, buildThrows) ==
  /\ CanStart(r)
  /\ LET q == [PdfIdle EXCEPT !.route = "post"] IN
     pdf' = [pdf EXCEPT ![r] =
               IF buildThrows THEN Fails(q, "build")
               ELSE [q EXCEPT !.pc = "launch"]]
  /\ UNCHANGED <<fs>>
  /\ UNCHANGED pdfFrame

\* app.get("/pdf/:id") up to `await puppeteer.launch(...)`.
PdfByIdStart(r, p, buildThrows) ==
  /\ CanStart(r)
  /\ LET q == [PdfIdle EXCEPT !.route = "byid", !.param = p]
         rd == readListings(fs) IN
     /\ fs' = rd.fs
     /\ pdf' = [pdf EXCEPT ![r] =
                  IF rd.threw THEN Fails(q, "read")
                  ELSE IF findIndex(rd.val, p) = 0
                    THEN Finally(Respond(q, 404, "text/plain"))
                  ELSE IF buildThrows THEN Fails(q, "build")
                  ELSE [q EXCEPT !.pc = "launch"]]
  /\ UNCHANGED pdfFrame

\* `browser = await puppeteer.launch(...)` settles.
Launch(r, ok) ==
  /\ pdf[r].pc = "launch"
  /\ pdf' = [pdf EXCEPT ![r] =
               IF ok THEN [@ EXCEPT !.browser = "running", !.pc = "newPage"]
               ELSE Fails(@, "launch")]
  /\ UNCHANGED <<fs>>
  /\ UNCHANGED pdfFrame

\* `page = await browser.newPage()` settles.
NewPage(r, ok) ==
  /\ pdf[r].pc = "newPage"
  /\ pdf' = [pdf EXCEPT ![r] =
               IF ok THEN [@ EXCEPT !.pc = "setContent"] ELSE Fails(@, "newPage")]
  /\ UNCHANGED <<fs>>
  /\ UNCHANGED pdfFrame

\* `await page.setContent(html, { waitUntil: "load" })` settles.
SetContent(r, ok) ==
  /\ pdf[r].pc = "setContent"
  /\ pdf' = [pdf EXCEPT ![r] =
               IF ok THEN [@ EXCEPT !.pc = "pdf"] ELSE Fails(@, "setContent")]
  /\ UNCHANGED <<fs>>
  /\ UNCHANGED pdfFrame

\* `pdfData = await page.pdf(...)` settles; on success the PDF is sent and the
\* finally block starts.
ExportPdf(r, ok) ==
  /\ pdf[r].pc = "pdf"
  /\ pdf' = [pdf EXCEPT ![r] =
               IF ok THEN Finally(SendPdf([@ EXCEPT !.exported = TRUE]))
               ELSE Fails(@, "pdf")]
  /\ UNCHANGED <<fs>>
  /\ UNCHANGED pdfFrame

\* `await browser.close().catch(() => {})` settles: the handler is finished.
CloseBrowser(r) ==
  /\ pdf[r].pc = "closing"
  /\ pdf' = [pdf EXCEPT ![r] = [@ EXCEPT !.browser = "closed", !.pc = "done"]]
  /\ UNCHANGED <<fs>>
  /\ UNCHANGED pdfFrame

NextPdf ==
  \/ \E r \in PdfReqs, b \in BOOLEAN : PdfPostStart(r, b)
  \/ \E r \in PdfReqs, p \in PdfParams, b \in BOOLEAN : PdfByIdStart(r, p, b)
  \/ \E r \in PdfReqs, ok \in BOOLEAN : Launch(r, ok)
  \/ \E r \in PdfReqs, ok \in BOOLEAN : NewPage(r, ok)
  \/ \E r \in PdfReqs, ok \in BOOLEAN : SetContent(r, ok)
  \/ \E r \in PdfReqs, ok \in BOOLEAN : ExportPdf(r, ok)
  \/ \E r \in PdfReqs : CloseBrowser(r)

SpecPdf == InitPdf /\ [][NextPdf]_vars

\* C7: when a PDF request's handler has finished, on either route and whether
\* or not a step failed, the browser it launched is no longer running.
C7_BrowserClosedWhenHandlerDone ==
  \A r \in PdfReqs :
    pdf[r].pc = "done" => pdf[r].browser \in {"undefined", "closed"}

\* C7 witness: one request finished after its page load failed and another
\* after a successful export, and both browsers are closed.
C7_Witness ==
  \E r1, r2 \in PdfReqs :
    /\ pdf[r1].pc = "done" /\ pdf[r1].failed = "setContent"
    /\ pdf[r1].browser = "closed"
    /\ pdf[r2].pc = "done" /\ pdf[r2].exported /\ pdf[r2].browser = "closed"

\* C8: a request never gets more than one response; once a step has failed
\* the response is the 500 one and not a PDF; a finished handler has answered
\* exactly once; an application/pdf response is a 200 sent after page.pdf()
\* resolved.
C8_FailureAnswers500NotPdf ==
  \A r \in PdfReqs :
    /\ Len(pdf[r].responses) <= 1
    /\ pdf[r].failed # "" =>
         pdf[r].responses = <<[status |-> 500, type |-> "text/plain"]>>
    /\ pdf[r].pc = "done" => Len(pdf[r].responses) = 1
    /\ \A i \in 1..Len(pdf[r].responses) :
         pdf[r].responses[i].type = "application/pdf" =>
           (pdf[r].responses[i].status = 200 /\ pdf[r].exported /\ pdf[r].failed = "")

\* C8 witness: a request whose export failed has finished with its single 500
\* response, next to one that was answered with the PDF.
C8_Witness ==
  \E r1, r2 \in PdfReqs :
    /\ pdf[r1].pc = "done" /\ pdf[r1].failed = "pdf"
    /\ pdf[r1].responses = <<[status |-> 500, type |-> "text/plain"]>>
    /\ pdf[r2].responses = <<[status |-> 200, type |-> "application/pdf"]>>

(***************************************************************************)
(* Texts are sequences of one-character strings.                           *)
(***************************************************************************)
Includes(s, c) == \E i \in 1..Len(s) : s[i] = c

\* The characters String.prototype.trim removes: WhiteSpace and
\* LineTerminator of ECMAScript.  A character that a string of this module
\* cannot hold is written as the name of its code point.
WhiteSpace ==
  {" ", "\t", "\n", "\r", "\f", "U+000B", "U+00A0", "U+1680", "U+2000",
   "U+2001", "U+2002", "U+2003", "U+2004", "U+2005", "U+2006", "U+2007",
   "U+2008", "U+2009", "U+200A", "U+2028", "U+2029", "U+202F", "U+205F",
   "U+3000", "U+FEFF"}

RECURSIVE TrimStart(_)
TrimStart(s) == IF s # <<>> /\ Head(s) \in WhiteSpace THEN TrimStart(Tail(s)) ELSE s
RECURSIVE TrimEnd(_)
TrimEnd(s) ==
  IF s # <<>> /\ s[Len(s)] \in WhiteSpace THEN TrimEnd(SubSeq(s, 1, Len(s) - 1)) ELSE s
\* String.prototype.trim
Trim(s) == TrimEnd(TrimStart(s))

\* s.replaceAll(c, rep) for a one-character pattern c
RECURSIVE replaceAll(_, _, _)
replaceAll(s, c, rep) ==
  IF s = <<>> THEN <<>>
  ELSE (IF Head(s) = c THEN rep ELSE <<Head(s)>>) \o replaceAll(Tail(s), c, rep)

(***************************************************************************)
(* fmtCurrency                                                             *)
(***************************************************************************)
DigitChars == <<"0", "1", "2", "3", "4", "5", "6", "7", "8", "9">>
IsDigit(c) == \E d \in 1..10 : DigitChars[d] = c
DigitVal(c) == (CHOOSE d \in 1..10 : DigitChars[d] = c) - 1

\* s.replace(/[^\d.]/g, "")
StripNonNumeric(s) == SelectSeq(s, LAMBDA c : IsDigit(c) \/ c = ".")

(***************************************************************************)
(* Natural numbers of any size: the sequence of their decimal digits, most *)
(* significant first and without leading zeros (0 is the empty sequence).  *)
(* Every digit of a result is given by a formula of its own, so that a     *)
(* long number takes no deeper evaluation than a short one.                *)
(***************************************************************************)
Zeros(n) == [i \in 1..n |-> 0]
At(a, i) == IF i >= 1 /\ i <= Len(a) THEN a[i] ELSE 0
Odd(a) == At(a, Len(a)) % 2 = 1

Norm(a) ==
  LET nz == {i \in 1..Len(a) : a[i] # 0} IN
  IF nz = {} THEN <<>>
  ELSE SubSeq(a, CHOOSE i \in nz : \A j \in nz : i <= j, Len(a))

BigLess(a, b) ==
  \/ Len(a) < Len(b)
  \/ /\ Len(a) = Len(b)
     /\ \E i \in 1..Len(a) : a[i] < b[i] /\ \A j \in 1..(i - 1) : a[j] = b[j]

\* a + b: a column gets a carry when the nearest column to its right whose
\* sum is not 9 has a sum of 10 or more.
BigAdd(a, b) ==
  LET n == (IF Len(a) > Len(b) THEN Len(a) ELSE Len(b)) + 1
      x == Zeros(n - Len(a)) \o a
      y == Zeros(n - Len(b)) \o b
      Carry(i) == \E j \in (i + 1)..n :
                    x[j] + y[j] >= 10 /\ \A l \in (i + 1)..(j - 1) : x[l] + y[l] = 9 IN
  Norm([i \in 1..n |-> (x[i] + y[i] + (IF Carry(i) THEN 1 ELSE 0)) % 10])

\* a - b for a >= b: a column lends when the nearest column to its right
\* whose digits differ has the smaller digit on top.
BigSub(a, b) ==
  LET n == Len(a)
      y == Zeros(n - Len(b)) \o b
      Borrow(i) == \E j \in (i + 1)..n :
                     a[j] < y[j] /\ \A l \in (i + 1)..(j - 1) : a[l] = y[l] IN
  Norm([i \in 1..n |-> (a[i] - y[i] - (IF Borrow(i) THEN 1 ELSE 0) + 10) % 10])

\* 2 * a: a column gets a carry when the digit to its right is 5 or more.
Double(a) ==
  Norm([i \in 1..(Len(a) + 1) |->
          (2 * At(a, i - 1) + (IF At(a, i) >= 5 THEN 1 ELSE 0)) % 10])
Double16(a) ==
  Double(Double(Double(Double(Double(Double(Double(Double(
  Double(Double(Double(Double(Double(Double(Double(Double(a))))))))))))))))

\* a \div 2: a column takes 10 from an odd digit to its left.
Half(a) == Norm([i \in 1..Len(a) |-> (10 * (At(a, i - 1) % 2) + a[i]) \div 2])

\* 10^j % 65536 for j = 0..15; 10^16 is a multiple of 65536.
PowersOfTen16 == <<1, 10, 100, 1000, 10000, 34464, 16960, 38528,
                   57600, 51712, 58368, 59392, 4096, 40960, 16384, 32768>>
\* The number of the first i digits of a, % 65536
RECURSIVE Low16(_, _, _)
Low16(a, i, j) ==
  IF j = 16 THEN 0
  ELSE (At(a, i - j) * PowersOfTen16[j + 1] + Low16(a, i, j + 1)) % 65536
\* a \div 65536, by long division
Div65536(a) ==
  Norm([i \in 1..Len(a) |-> (10 * Low16(a, i - 1, 0) + a[i]) \div 65536])

\* a * 2^e
Scale[a \in Seq(0..9), e \in Nat] ==
  IF e = 0 THEN a
  ELSE IF e >= 16 THEN Scale[Double16(a), e - 16]
  ELSE Scale[Double(a), e - 1]

\* p * 5^q: 5 is 10 / 2
Times5[p \in Seq(0..9), q \in Nat] ==
  IF q = 0 THEN p ELSE Times5[Half(p \o <<0>>), q - 1]

\* The number of binary digits of a
BitLength[a \in Seq(0..9)] == IF a = <<>> THEN 0 ELSE 1 + BitLength[Half(a)]

Two52 == <<4, 5, 0, 3, 5, 9, 9, 6, 2, 7, 3, 7, 0, 4, 9, 6>>
Two53 == <<9, 0, 0, 7, 1, 9, 9, 2, 5, 4, 7, 4, 0, 9, 9, 2>>

(***************************************************************************)
(* Number(t) for a text of digits and dots.  The value of a Number is an   *)
(* IEEE 754 double: the decimal is rounded to the nearest 53-bit binary    *)
(* number, ties to the even one.                                           *)
(***************************************************************************)
StripZeros(f) ==
  LET nz == {i \in 1..Len(f) : f[i] # 0} IN
  IF nz = {} THEN <<>>
  ELSE SubSeq(f, 1, CHOOSE i \in nz : \A j \in nz : j <= i)
DigitsOf(t) == [i \in 1..Len(t) |-> DigitVal(t[i])]

\* A number a >= 2^53 written as m * 2^e with m < 2^53: the bit dropped last
\* (guard) and whether a bit dropped before it, or the fraction, is set.  A
\* number of more than 21 digits is at least 2^69: sixteen bits go at once.
ToBinary[m \in Seq(0..9), e \in Nat, guard \in BOOLEAN, sticky \in BOOLEAN] ==
  IF BigLess(m, Two53) THEN [m |-> m, e |-> e, guard |-> guard, sticky |-> sticky]
  ELSE IF Len(m) > 21
       THEN LET r == Low16(m, Len(m), 0) IN
            ToBinary[Div65536(m), e + 16, r >= 32768,
                     sticky \/ guard \/ r % 32768 # 0]
  ELSE ToBinary[Half(m), e + 1, Odd(m), sticky \/ guard]

\* The fraction f (digits after the point, no trailing zeros) against the
\* fraction g: "less", "equal" or "more".
FracCompare(f, g) ==
  LET n == IF Len(f) > Len(g) THEN Len(f) ELSE Len(g)
      x == f \o Zeros(n - Len(f))
      y == g \o Zeros(n - Len(g)) IN
  IF x = y THEN "equal"
  ELSE IF \E i \in 1..n : x[i] < y[i] /\ \A j \in 1..(i - 1) : x[j] = y[j] THEN "less"
  ELSE "more"

\* For an integer part n < 2^52: is the double nearest n + 0.f at least
\* n + 1/2?  n + 1/2 is a double, q binary places are left after the point
\* next to n, and the decimal rounds to n + 1/2 or more from 1/2 - 2^-q on
\* (on the tie itself only if n + 1/2 is the even neighbour).  A decimal of at
\* most 15 significant digits is less than that unless its fraction is at
\* least one half.
RoundsToHalf(n, f) ==
  IF f # <<>> /\ f[1] >= 5 THEN TRUE
  ELSE IF Len(n) + Len(f) <= 15 THEN FALSE
  ELSE LET bits == BitLength[n]
           q == IF n = <<>> THEN 55 ELSE 54 - bits
           below == BigSub(<<5>> \o Zeros(q - 1), Times5[<<1>>, q])
           c == FracCompare(f, Zeros(q - Len(below)) \o below) IN
       c = "more" \/ (c = "equal" /\ bits < 52)

\* Number(t): NaN (finite FALSE) for a lone dot or more than one dot, 0 for
\* the empty text, Infinity (finite FALSE) from 2^1024 on, else the double
\* nearest the decimal, kept as what the formatting reads of it: its integer
\* part and whether the rest is at least one half (a double between n + 1/2
\* and n + 1, n + 1 included, is kept as n and a half).
NumberOf(t) ==
  LET dots == {i \in 1..Len(t) : t[i] = "."}
      d == IF dots = {} THEN Len(t) + 1 ELSE CHOOSE i \in dots : TRUE
      n == Norm(DigitsOf(SubSeq(t, 1, d - 1)))
      f == StripZeros(DigitsOf(SubSeq(t, d + 1, Len(t)))) IN
  IF Cardinality(dots) > 1 \/ t = <<".">> THEN [finite |-> FALSE, int |-> <<>>, half |-> FALSE]
  ELSE IF BigLess(n, Two52) THEN [finite |-> TRUE, int |-> n, half |-> RoundsToHalf(n, f)]
  ELSE IF BigLess(n, Two53)
       THEN LET c == FracCompare(f, <<5>>)
                up == c = "more" \/ (c = "equal" /\ Odd(n)) IN
            [finite |-> TRUE, int |-> IF up THEN BigAdd(n, <<1>>) ELSE n, half |-> FALSE]
  ELSE LET b == ToBinary[n, 0, FALSE, f # <<>>]
           up == b.guard /\ (b.sticky \/ Odd(b.m))
           m == IF up THEN BigAdd(b.m, <<1>>) ELSE b.m
           finite == b.e + (IF m = Two53 THEN 1 ELSE 0) <= 971 IN
       [finite |-> finite, int |-> IF finite THEN Scale[m, b.e] ELSE <<>>,
        half |-> FALSE]

(***************************************************************************)
(* Intl.NumberFormat writes a double as the shortest decimal that reads    *)
(* back as that double (the nearest one to it if there are several), and   *)
(* rounds that to the fraction digits asked for.                           *)
(***************************************************************************)
\* The first k digits of a, followed by zeros.
Leading(a, k) == SubSeq(a, 1, k) \o Zeros(Len(a) - k)

\* The shortest decimal of k or more digits between lo and hi (the two
\* included or not) for the double a.
RECURSIVE ShortestFrom(_, _, _, _, _)
ShortestFrom(a, k, lo, hi, included) ==
  LET down == Leading(a, k)
      up == BigAdd(down, <<1>> \o Zeros(Len(a) - k))
      Inside(c) == IF included THEN ~BigLess(c, lo) /\ ~BigLess(hi, c)
                   ELSE BigLess(lo, c) /\ BigLess(c, hi)
      gapDown == BigSub(a, down)
      gapUp == BigSub(up, a) IN
  IF k >= Len(a) THEN a
  ELSE IF Inside(down) /\ Inside(up)
       THEN (IF BigLess(gapDown, gapUp) \/ (gapDown = gapUp /\ down[k] % 2 = 0)
             THEN down ELSE up)
  ELSE IF Inside(down) THEN down
  ELSE IF Inside(up) THEN up
  ELSE ShortestFrom(a, k + 1, lo, hi, included)

\* For an integer double a: below 2^53 every integer is a double; above, the
\* decimals that read back as a = m * 2^e lie half a step around it.
Shortest(a) ==
  IF ~BigLess(Two53, a) THEN a
  ELSE LET b == ToBinary[a, 0, FALSE, FALSE]
           step == Scale[<<1>>, b.e - 1]
           lo == BigSub(a, IF b.m = Two52 THEN Half(step) ELSE step)
           hi == BigAdd(a, step) IN
       ShortestFrom(a, 1, lo, hi, ~Odd(b.m))

Decimal(a) == IF a = <<>> THEN <<"0">> ELSE [i \in 1..Len(a) |-> DigitChars[a[i] + 1]]

\* The digits ds with a comma before every group of three counted from the
\* right.
Grouped(ds) ==
  LET n == Len(ds)
      first == ((n - 1) % 3) + 1
      groups == (n - 1) \div 3 IN
  [i \in 1..(n + groups) |->
     IF i <= first THEN ds[i]
     ELSE IF (i - first) % 4 = 1 THEN ","
     ELSE ds[i - ((i - first - 1) \div 4) - 1]]

\* new Intl.NumberFormat("en-US", { style: "currency", currency: "USD",
\* maximumFractionDigits: 0 }).format(n): rounds half away from zero.
IntlCurrency(n) ==
  <<"$">> \o Grouped(Decimal(IF n.half THEN BigAdd(n.int, <<1>>) ELSE Shortest(n.int)))

fmtCurrency(v) ==
  LET s == Trim(v) IN
  IF s = <<>> THEN <<>>
  ELSE IF Includes(s, "$") \/ Includes(s, ",") THEN s
  ELSE LET n == NumberOf(StripNonNumeric(s)) IN
       IF ~n.finite THEN s ELSE IntlCurrency(n)

(***************************************************************************)
(* SpecFmt: fmtCurrency on every price text of up to MaxPriceLen           *)
(* characters over digits, a dot, the currency and group symbols, a       *)
(* letter, a space and a tab, and on a few prices of more digits than a    *)
(* double holds.                                                           *)
(***************************************************************************)
PriceChars == {"0", "4", "5", ".", "$", ",", "N", " ", "\t"}
Texts(chars, n) == SeqsUpTo(chars, n)

pureFrame == <<fs, last, saved, serial, pending, overlap, pdf, restVars>>
pureIdle ==
  /\ fs = MissingFile(TRUE)
  /\ last = NoLast
  /\ saved = [x \in GoodIds |-> NoBody]
  /\ serial = <<>>
  /\ pending = <<>>
  /\ overlap = FALSE
  /\ pdf = <<>>
  /\ restIdle
NoText == [call |-> "none", val |-> <<>>]

\* Prices that are not doubles: Number rounds them to the nearest one.
LongPrices ==
  {<<"9", "0", "0", "7", "1", "9", "9", "2", "5", "4", "7", "4", "0", "9", "9", "3">>,
   <<"0", ".", "4", "9", "9", "9", "9", "9", "9", "9", "9", "9", "9", "9", "9", "9",
     "9", "9", "9">>,
   <<"1", "2", "3", "4", "5", "6", "7", "8", "9", "0", "1", "2", "3", "4", "5", "6",
     "7", "8", "9", "0", "1", "2", "3", "4", "5">>}

InitFmt ==
  /\ input \in Texts(PriceChars, MaxPriceLen) \cup LongPrices
  /\ output = NoText
  /\ pureIdle

FormatPrice ==
  /\ output' = [call |-> "fmtCurrency", val |-> fmtCurrency(input)]
  /\ UNCHANGED input
  /\ UNCHANGED pureFrame

NextFmt == FormatPrice

SpecFmt == InitFmt /\ [][NextFmt]_vars

\* A text that is a decimal number: digits with at most one dot among them.
ParsesAsNumber(s) ==
  /\ \E i \in 1..Len(s) : IsDigit(s[i])
  /\ \A i \in 1..Len(s) : IsDigit(s[i]) \/ s[i] = "."
  /\ Cardinality({i \in 1..Len(s) : s[i] = "."}) <= 1

\* C9: a price with '$' or ',' comes back unchanged; one without them that is
\* a number comes back as '$' and the grouped, rounded integer; one that is
\* not a number comes back unchanged.  (Unchanged is read up to the white
\* space around the text, which the function trims.)
C9_ParseOrPassthrough ==
  output.call = "fmtCurrency" =>
    LET s == Trim(input) IN
    IF Includes(s, "$") \/ Includes(s, ",") THEN output.val = s
    ELSE IF ParsesAsNumber(s) THEN output.val = IntlCurrency(NumberOf(s))
    ELSE output.val = s

(***************************************************************************)
(* escapeHtml (server side, used by buildPdfHtml) and esc (the share       *)
(* page's in-page script).                                                 *)
(***************************************************************************)
escapeHtml(str) ==
  replaceAll(replaceAll(replaceAll(replaceAll(replaceAll(str,
    "&", <<"&", "a", "m", "p", ";">>),
    "<", <<"&", "l", "t", ";">>),
    ">", <<"&", "g", "t", ";">>),
    "\"", <<"&", "q", "u", "o", "t", ";">>),
    "'", <<"&", "#", "0", "3", "9", ";">>)

esc(s) ==
  replaceAll(replaceAll(replaceAll(s,
    "&", <<"&", "a", "m", "p", ";">>),
    "<", <<"&", "l", "t", ";">>),
    ">", <<"&", "g", "t", ";">>)

\* The characters U+0000 to U+007F in the order of their codes.  A character
\* no string of this module can hold (most control characters, the grave
\* accent) is written by its name, as in WhiteSpace.
Ascii ==
  << "U+0000", "U+0001", "U+0002", "U+0003", "U+0004", "U+0005", "U+0006", "U+0007",
   "U+0008", "\t", "\n", "U+000B", "\f", "\r", "U+000E", "U+000F",
   "U+0010", "U+0011", "U+0012", "U+0013", "U+0014", "U+0015", "U+0016", "U+0017",
   "U+0018", "U+0019", "U+001A", "U+001B", "U+001C", "U+001D", "U+001E", "U+001F",
   " ", "!", "\"", "#", "$", "%", "&", "'",
   "(", ")", "*", "+", ",", "-", ".", "/",
   "0", "1", "2", "3", "4", "5", "6", "7",
   "8", "9", ":", ";", "<", "=", ">", "?",
   "@", "A", "B", "C", "D", "E", "F", "G",
   "H", "I", "J", "K", "L", "M", "N", "O",
   "P", "Q", "R", "S", "T", "U", "V", "W",
   "X", "Y", "Z", "[", "\\", "]", "^", "_",
   "U+0060", "a", "b", "c", "d", "e", "f", "g",
   "h", "i", "j", "k", "l", "m", "n", "o",
   "p", "q", "r", "s", "t", "u", "v", "w",
   "x", "y", "z", "{", "|", "}", "~", "U+007F">>
\* The code points of the characters beyond U+007F that this module names.
CodePoints ==
  {<<"U+00A0", 160>>, <<"U+1680", 5760>>, <<"U+2000", 8192>>, <<"U+2001", 8193>>,
   <<"U+2002", 8194>>, <<"U+2003", 8195>>, <<"U+2004", 8196>>, <<"U+2005", 8197>>,
   <<"U+2006", 8198>>, <<"U+2007", 8199>>, <<"U+2008", 8200>>, <<"U+2009", 8201>>,
   <<"U+200A", 8202>>, <<"U+2028", 8232>>, <<"U+2029", 8233>>, <<"U+202F", 8239>>,
   <<"U+205F", 8287>>, <<"U+3000", 12288>>, <<"U+FEFF", 65279>>}
CodeOf(c) ==
  IF \E i \in 1..Len(Ascii) : Ascii[i] = c
  THEN (CHOOSE i \in 1..Len(Ascii) : Ascii[i] = c) - 1
  ELSE (CHOOSE x \in CodePoints : x[1] = c)[2]

UpperHex == <<"0", "1", "2", "3", "4", "5", "6", "7", "8", "9",
              "A", "B", "C", "D", "E", "F">>
LowerHex == <<"0", "1", "2", "3", "4", "5", "6", "7", "8", "9",
              "a", "b", "c", "d", "e", "f">>

\* The UTF-8 bytes of a code point below U+10000.
Utf8(n) ==
  IF n < 128 THEN <<n>>
  ELSE IF n < 2048 THEN <<192 + (n \div 64), 128 + (n % 64)>>
  ELSE <<224 + (n \div 4096), 128 + ((n \div 64) % 64), 128 + (n % 64)>>

\* encodeURIComponent(s): every character is written as % and the two
\* hexadecimal digits of each byte of its UTF-8 form, except letters, digits
\* and - _ . ! ~ * ' ( ).
Unreserved ==
  {"-", "_", ".", "!", "~", "*", "'", "(", ")",
   "0", "1", "2", "3", "4", "5", "6", "7", "8", "9",
   "a", "b", "c", "d", "e", "f", "g", "h", "i", "j", "k", "l", "m",
   "n", "o", "p", "q", "r", "s", "t", "u", "v", "w", "x", "y", "z",
   "A", "B", "C", "D", "E", "F", "G", "H", "I", "J", "K", "L", "M",
   "N", "O", "P", "Q", "R", "S", "T", "U", "V", "W", "X", "Y", "Z"}
PercentEncoded(c) ==
  LET bytes == Utf8(CodeOf(c)) IN
  [i \in 1..(3 * Len(bytes)) |->
     LET byte == bytes[((i - 1) \div 3) + 1] IN
     IF i % 3 = 1 THEN "%"
     ELSE IF i % 3 = 2 THEN UpperHex[(byte \div 16) + 1]
     ELSE UpperHex[(byte % 16) + 1]]
RECURSIVE encodeURIComponent(_)
encodeURIComponent(s) ==
  IF s = <<>> THEN <<>>
  ELSE (IF Head(s) \in Unreserved THEN <<Head(s)>> ELSE PercentEncoded(Head(s)))
       \o encodeURIComponent(Tail(s))

\* JSON.stringify(s) for a string s: the text between double quotes, with the
\* double quote and the backslash behind a backslash, backspace, tab, line
\* feed, form feed and carriage return as \b \t \n \f \r, and every other
\* character below U+0020 as \u and four lowercase hexadecimal digits.
QuoteJSONChar(c) ==
  LET n == CodeOf(c) IN
  IF c = "\"" THEN <<"\\", "\"">>
  ELSE IF c = "\\" THEN <<"\\", "\\">>
  ELSE IF n = 8 THEN <<"\\", "b">>
  ELSE IF n = 9 THEN <<"\\", "t">>
  ELSE IF n = 10 THEN <<"\\", "n">>
  ELSE IF n = 12 THEN <<"\\", "f">>
  ELSE IF n = 13 THEN <<"\\", "r">>
  ELSE IF n < 32
    THEN <<"\\", "u", "0", "0", LowerHex[(n \div 16) + 1], LowerHex[(n % 16) + 1]>>
  ELSE <<c>>
RECURSIVE QuoteJSONString(_)
QuoteJSONString(s) ==
  IF s = <<>> THEN <<>> ELSE QuoteJSONChar(Head(s)) \o QuoteJSONString(Tail(s))
JSONstringifyString(s) == <<"\"">> \o QuoteJSONString(s) \o <<"\"">>

(***************************************************************************)
(* SpecHtml: one text interpolated into generated HTML.  A listing field:  *)
(* by buildPdfHtml into an element of the flyer, by the share page's       *)
(* script into an element, into an attribute value and into the href of    *)
(* the PDF link.  The id of the route /listing/:id: by the server into the *)
(* title and into the script of the share page.  The address of the page   *)
(* (location.href): by the script into the share link.                     *)
(***************************************************************************)
HtmlChars == {"&", "<", ">", "\"", "'", "a", "\\", "\n"}

InitHtml ==
  /\ input \in Texts(HtmlChars, MaxFieldLen)
  /\ output = NoText
  /\ pureIdle

\* <p class="title">${escapeHtml(listing.title || "Property Listing")}</p>
FlyerElement ==
  /\ input # <<>>
  /\ output' = [call |-> "flyer element", val |-> escapeHtml(input)]
  /\ UNCHANGED input
  /\ UNCHANGED pureFrame

\* <h1 class="title">${esc(l.title || "Property Listing")}</h1>
ShareElement ==
  /\ input # <<>>
  /\ output' = [call |-> "share element", val |-> esc(input)]
  /\ UNCHANGED input
  /\ UNCHANGED pureFrame

\* ${a.logoUrl ? `<img class="logo" src="${esc(a.logoUrl)}" ... />` : ""}
ShareAttribute ==
  /\ input # <<>>
  /\ output' = [call |-> "share attribute", val |-> esc(input)]
  /\ UNCHANGED input
  /\ UNCHANGED pureFrame

\* <a class="btn" href="/pdf/${encodeURIComponent(l.id)}">Download PDF</a>
ShareHref ==
  /\ input # <<>>
  /\ output' = [call |-> "share href", val |-> encodeURIComponent(input)]
  /\ UNCHANGED input
  /\ UNCHANGED pureFrame

\* <title>Listing ${escapeHtml(id)}</title>
ShareTitle ==
  /\ input # <<>>
  /\ output' = [call |-> "share title", val |-> escapeHtml(input)]
  /\ UNCHANGED input
  /\ UNCHANGED pureFrame

\* <script> const id = ${JSON.stringify(id)};
ShareScriptId ==
  /\ input # <<>>
  /\ output' = [call |-> "share script id", val |-> JSONstringifyString(input)]
  /\ UNCHANGED input
  /\ UNCHANGED pureFrame

\* <div class="muted">Share link: ${location.href}</div>: the address is
\* written as the script reads it.
ShareLink ==
  /\ input # <<>>
  /\ output' = [call |-> "share link", val |-> input]
  /\ UNCHANGED input
  /\ UNCHANGED pureFrame

NextHtml ==
  \/ FlyerElement
  \/ ShareAttribute
  \/ ShareElement
  \/ ShareHref
  \/ ShareTitle
  \/ ShareScriptId
  \/ ShareLink

SpecHtml == InitHtml /\ [][NextHtml]_vars

\* The interpolations of a listing field.
ListingFieldCalls ==
  {"flyer element", "share element", "share attribute", "share href"}

Entities ==
  {<<"&", "a", "m", "p", ";">>, <<"&", "l", "t", ";">>, <<"&", "g", "t", ";">>,
   <<"&", "q", "u", "o", "t", ";">>, <<"&", "#", "0", "3", "9", ";">>}

\* No markup character of the field is left as it is: no '<', '>' or quote,
\* and every '&' starts one of the five entities.
FullyEscaped(out) ==
  \A i \in 1..Len(out) :
    /\ out[i] \notin {"<", ">", "\"", "'"}
    /\ out[i] = "&" =>
         \E e \in Entities :
           i + Len(e) - 1 <= Len(out) /\ SubSeq(out, i, i + Len(e) - 1) = e

\* C10: a listing field interpolated into the flyer or by the share page's
\* script appears with its ampersands, angle brackets and quotes escaped,
\* inside attribute values too.
C10_InterpolatedFieldsAreEscaped ==
  output.call \in ListingFieldCalls => FullyEscaped(output.val)

(***************************************************************************)
(* imageUrlToDataUri.  An image reference is absent (undefined, null or    *)
(* the empty string), external ("http://host/..."), or local: "/" and its  *)
(* segments joined by "/".  A path is resolved against __dirname: up is    *)
(* the number of directories it leaves __dirname by, segs what follows.    *)
(***************************************************************************)
MaxSegs == 4

AbsentRef == [kind |-> "absent", segs |-> <<>>]
ExternalRef == [kind |-> "external", segs |-> <<>>]
LocalRef(segs) == [kind |-> "local", segs |-> segs]

SegNames ==
  {"uploads", "data", "..", "a.png", "b.webp", "locked.png", "listings.json",
   "gone.png"}

\* s.startsWith("/uploads/")
StartsWithUploads(ref) ==
  ref.kind = "local" /\ Len(ref.segs) >= 2 /\ ref.segs[1] = "uploads"

\* path.join(__dirname, s): ".." segments are resolved, textually.
RECURSIVE Normalize(_, _)
Normalize(done, segs) ==
  IF segs = <<>> THEN done
  ELSE IF Head(segs) = ".."
    THEN IF done.segs = <<>>
         THEN Normalize([done EXCEPT !.up = @ + 1], Tail(segs))
         ELSE Normalize([done EXCEPT !.segs = SubSeq(@, 1, Len(@) - 1)], Tail(segs))
    ELSE Normalize([done EXCEPT !.segs = Append(@, Head(segs))], Tail(segs))
pathJoin(segs) == Normalize([up |-> 0, segs |-> <<>>], segs)

\* What the disk holds at a resolved path: a file, a file the process may not
\* read, a directory, or nothing.
Disk(path) ==
  IF path.up > 0 THEN (IF path.segs = <<>> THEN "dir" ELSE "missing")
  ELSE CASE path.segs \in {<<>>, <<"uploads">>, <<"data">>} -> "dir"
         [] path.segs \in {<<"uploads", "a.png">>, <<"uploads", "b.webp">>,
                           <<"data", "listings.json">>} -> "file"
         [] path.segs = <<"uploads", "locked.png">> -> "locked"
         [] OTHER -> "missing"

\* fs.existsSync(filePath)
existsSync(path) == Disk(path) # "missing"

\* path.extname(filePath).toLowerCase(), then the mime type chosen from it
MimeOf(path) ==
  LET name == IF path.segs = <<>> THEN "" ELSE path.segs[Len(path.segs)] IN
  CASE name \in {"a.png", "locked.png", "gone.png"} -> "image/png"
    [] name = "b.webp" -> "image/webp"
    [] OTHER -> "image/jpeg"

\* fs.readFileSync(filePath): throws on a directory and on a file that may not
\* be read; otherwise the bytes, kept as the path of the file they came from.
readFileSync(path) == [threw |-> Disk(path) # "file", bytes |-> path]

Null == [mime |-> "", bytes |-> [up |-> 0, segs |-> <<>>]]
DataUri(mime, bytes) == [mime |-> mime, bytes |-> bytes]

imageUrlToDataUri(imageUrl) ==
  IF imageUrl.kind = "absent" THEN Null
  ELSE IF ~StartsWithUploads(imageUrl) THEN Null
  ELSE LET filePath == pathJoin(imageUrl.segs) IN
       IF ~existsSync(filePath) THEN Null
       ELSE LET r == readFileSync(filePath) IN
            IF r.threw THEN Null
            ELSE DataUri(MimeOf(filePath), r.bytes)

(***************************************************************************)
(* SpecImg: buildPdfHtml resolving the property image and the agent logo   *)
(* of a listing.  input is the reference; output the data URI and whether  *)
(* the flyer gets an <img> element for it.                                 *)
(***************************************************************************)
ImageRefs ==
  {AbsentRef, ExternalRef} \cup
  {LocalRef(q) : q \in SeqsUpTo(SegNames, MaxSegs)}

NoImage == [call |-> "none", uri |-> Null, img |-> FALSE]

InitImg ==
  /\ input \in ImageRefs
  /\ output = NoImage
  /\ pureIdle

\* ${propertyImageDataUri ? `<div class="hero"><img src="..." /></div>` : ""}
HeroImage ==
  /\ LET uri == imageUrlToDataUri(input) IN
     output' = [call |-> "hero", uri |-> uri, img |-> uri # Null]
  /\ UNCHANGED input
  /\ UNCHANGED pureFrame

\* ${agentLogoDataUri ? `<div class="logoBox"><img src="..." /></div>` : ""}
LogoImage ==
  /\ LET uri == imageUrlToDataUri(input) IN
     output' = [call |-> "logo", uri |-> uri, img |-> uri # Null]
  /\ UNCHANGED input
  /\ UNCHANGED pureFrame

NextImg == HeroImage \/ LogoImage

SpecImg == InitImg /\ [][NextImg]_vars

\* A resolved path that lies inside the uploads directory.
InsideUploads(path) ==
  path.up = 0 /\ Len(path.segs) >= 2 /\ path.segs[1] = "uploads"

\* C11: the flyer has an image element exactly when a data URI was returned,
\* and a data URI is returned only for a local reference, with the bytes of a
\* file inside the uploads directory; an absent or external reference, a
\* missing or unreadable file, and a reference that resolves outside the
\* uploads directory give nothing.
C11_OnlyUploadsAreInlined ==
  output.call # "none" =>
    /\ output.img = (output.uri # Null)
    /\ output.uri # Null =>
         /\ input.kind = "local"
         /\ InsideUploads(output.uri.bytes)
         /\ Disk(output.uri.bytes) = "file"

(***************************************************************************)
(* More claims about the store endpoints (specification Spec).             *)
(***************************************************************************)

\* C12: in every stored record the fields other than id and createdAt (here:
\* title) are present with a value that is neither null nor undefined,
\* whatever bodies were submitted to save.
C12_PersistedFieldsAreDefined ==
  \A i \in 1..Len(Stored(fs)) : Stored(fs)[i].title.t \notin {"undef", "null"}

\* C14: a save answered 200 puts its record at the front of the stored
\* sequence and leaves the records stored before behind it, all of them and in
\* the same order, so the length grows by one; a record whose id is already
\* stored is added all the same, next to the one that has the id.
C14_SavePrependsAndKeepsTheRest ==
  [][(last'.op = "save" /\ last'.status = 200) =>
       LET old == Stored(fs)
           new == Stored(fs') IN
       /\ Len(new) = Len(old) + 1
       /\ new[1] = last'.body
       /\ \A i \in 1..Len(old) : new[i + 1] = old[i]
       /\ HasId(old, last'.body.id) =>
            Cardinality({i \in 1..Len(new) : new[i].id = last'.body.id}) >= 2]_vars

\* C14 witness: a save of an id that was already stored was answered 200; its
\* record is at the front and a record with the same id is still behind it,
\* after a record with another id.
C14_Witness ==
  /\ last.op = "save" /\ last.status = 200
  /\ Len(Stored(fs)) = 3
  /\ Stored(fs)[1] = last.body
  /\ Stored(fs)[2].id # last.body.id
  /\ Stored(fs)[3].id = last.body.id

\* C15: a delete answered 200 leaves the stored sequence without any record
\* whose id is the id given in the route, the first and every further one,
\* and with every record of another id, in the order they had; a GET of the
\* id then answers 404.
C15_DeleteRemovesEveryMatch ==
  [][(last'.op = "delete" /\ last'.status = 200) =>
       LET old == Stored(fs)
           new == Stored(fs')
           id == JsStr(last'.param) IN
       /\ ~HasId(new, id)
       /\ new = SelectSeq(old, LAMBDA l : l.id # id)
       /\ GetHandler(fs', last'.param).status = 404]_vars

\* C15 witness: a delete removed two records that shared the id and left a
\* record of another id stored.
C15_Witness ==
  /\ last.op = "delete" /\ last.status = 200 /\ last.removed = 2
  /\ Len(Stored(fs)) = 1
  /\ GetHandler(fs, last.param).status = 404

(***************************************************************************)
(* SpecLookup: the two routes that look a record up by id, GET             *)
(* /api/listings/:id and GET /pdf/:id, on stores of up to MaxLookup        *)
(* records in which an id can be stored twice.  Neither route changes the  *)
(* stored sequence.  One PDF request is followed at a time.                *)
(***************************************************************************)
MaxLookup == 2

LookupRecords == [id : {JsStr("a"), JsNum("7")}, title : Titles]
LookupFiles ==
  {MissingFile(TRUE)} \cup
  {File(TRUE, TRUE, TRUE, ArrayDoc(q)) : q \in SeqsUpTo(LookupRecords, MaxLookup)}
LookupParams == {"a", "7", "z"}

InitLookup ==
  /\ fs \in LookupFiles
  /\ pdf = [r \in PdfReqs |-> PdfIdle]
  /\ restIdle
  /\ last = NoLast
  /\ saved = [x \in GoodIds |-> NoBody]
  /\ serial = <<>>
  /\ pending = <<>>
  /\ overlap = FALSE
  /\ input = <<>>
  /\ output = <<>>

NextLookup ==
  \/ \E p \in LookupParams : Get(p)
  \/ \E p \in LookupParams, b \in BOOLEAN : PdfByIdStart(1, p, b)
  \/ \E ok \in BOOLEAN : Launch(1, ok)
  \/ \E ok \in BOOLEAN : NewPage(1, ok)
  \/ \E ok \in BOOLEAN : SetContent(1, ok)
  \/ \E ok \in BOOLEAN : ExportPdf(1, ok)
  \/ CloseBrowser(1)

SpecLookup == InitLookup /\ [][NextLookup]_vars

\* The positions of the stored records whose id is the id of the route.
Matches(f, p) == {i \in 1..Len(Stored(f)) : Stored(f)[i].id = JsStr(p)}

\* C16: GET /api/listings/:id answers 404 exactly when no stored record has
\* the id, and otherwise 200 with the first record in stored order that has
\* it; GET /pdf/:id for an id that no stored record has answers 404, once, and
\* is finished without a browser launched.
C16_FirstMatchOrNotFound ==
  /\ last.op = "get" =>
       LET M == Matches(fs, last.param) IN
       /\ (last.status = 404) <=> (M = {})
       /\ M # {} =>
            /\ last.status = 200
            /\ last.listing = Stored(fs)[CHOOSE i \in M : \A j \in M : i <= j]
  /\ \A r \in PdfReqs :
       (pdf[r].route = "byid" /\ Matches(fs, pdf[r].param) = {}) =>
         /\ pdf[r].responses = <<[status |-> 404, type |-> "text/plain"]>>
         /\ pdf[r].browser = "undefined"
         /\ pdf[r].pc = "done"

\* C16 witness: of two stored records that share the id, the GET answered the
\* one stored first, and a PDF request for an id that is not stored is finished
\* with its 404 and no browser.
C16_Witness ==
  /\ last.op = "get" /\ last.status = 200
  /\ Len(Stored(fs)) = 2
  /\ Stored(fs)[1].id = Stored(fs)[2].id
  /\ Stored(fs)[1] # Stored(fs)[2]
  /\ last.listing = Stored(fs)[1]
  /\ pdf[1].route = "byid" /\ pdf[1].pc = "done"
  /\ pdf[1].responses = <<[status |-> 404, type |-> "text/plain"]>>

(***************************************************************************)
(* The generate endpoints.  The main server has                            *)
(* app.post("/api/listings/generate", aiLimiter, handler): the handler     *)
(* looks at hasOpenAIKey before it builds the prompt and calls the         *)
(* Copywriter (generateWithOpenAI).  It is async: it runs up to            *)
(* `await generateWithOpenAI(prompt)`, returns to the event loop, and      *)
(* answers when the Copywriter has settled; other requests are handled in  *)
(* between.  The repository holds three more generate endpoints, each in a *)
(* server of its own that reads the same OPENAI_API_KEY: the ES-module     *)
(* server's POST /api/listings/generate, the router's POST /generate       *)
(* (generateListing) and index.js's POST /generate-listing.  None of them  *)
(* looks at the key before it calls the Copywriter                         *)
(* (client.chat.completions.create).  Requests are modelled from where     *)
(* express.json has parsed their JSON body.                                *)
(***************************************************************************)
MaxGen == 1
\* The records the store of SpecGen holds at most.
MaxGenStore == 1

\* const aiLimiter = rateLimit({ windowMs: 15 * 60 * 1000, max: 30, ... }):
\* ahead of the main route's handler, it counts the requests of the window
\* (aiHits; one client address) and answers the ones over max itself, with
\* its message and the status the package gives a limited request (429).
aiLimiterMax == 30
RateLimited(hits) == hits > aiLimiterMax

\* if (!hasOpenAIKey) return res.status(503)...
KeyMissing(key) == ~key

\* req.body of a generate route: property facts that are texts, or a field
\* that cannot be turned into one ({"address": {"toString": 1}}).
GenerateInputs == {[address |-> JsStr("A")], [address |-> JsObject]}

\* buildPrompt(input): the template literal throws a TypeError on a field
\* that cannot be converted to a string.
buildPromptThrows(body) == body.address.t = "obj"

\* The main route up to its await: the status answered at once (0 when the
\* handler waits for the Copywriter) and whether the Copywriter was called.
\* The file is not used.
GenerateHandler(f, key, body) ==
  IF KeyMissing(key) THEN [fs |-> f, status |-> 503, called |-> FALSE]
  ELSE IF buildPromptThrows(body) THEN [fs |-> f, status |-> 500, called |-> FALSE]
  ELSE [fs |-> f, status |-> 0, called |-> TRUE]

\* The rest of the handler, once generateWithOpenAI has resolved (copywriter
\* TRUE) or rejected.
GenerateAnswer(copywriter) == IF copywriter THEN 200 ELSE 500

\* The ES-module server's route up to its await: `${address || "N/A"}` of the
\* prompt throws inside the try on a field that cannot be converted.
ModuleGenerateHandler(f, key, body) ==
  IF body.address.t = "obj" THEN [fs |-> f, status |-> 500, called |-> FALSE]
  ELSE [fs |-> f, status |-> 0, called |-> TRUE]

\* generateListing(info) up to its await: JSON.stringify(info) takes every
\* body, `${info.tone || "..."}` throws on a tone that cannot be converted.
generateListingThrows(info) == "tone" \in DOMAIN info /\ info.tone.t = "obj"

\* The router's route up to the await inside generateListing.
RouterGenerateHandler(f, key, body) ==
  IF generateListingThrows(body) THEN [fs |-> f, status |-> 500, called |-> FALSE]
  ELSE [fs |-> f, status |-> 0, called |-> TRUE]

\* index.js's route up to its await: `${address}` of the prompt throws inside
\* the try, whose catch answers the stock listing with res.json (200).
GenerateListingHandler(f, key, body) ==
  IF body.address.t = "obj" THEN [fs |-> f, status |-> 200, called |-> FALSE]
  ELSE [fs |-> f, status |-> 0, called |-> TRUE]

\* What the catch block of a route answers when the Copywriter has rejected.
CatchStatus(route) == IF route = "generate-listing" THEN 200 ELSE 500

\* app.get("/listing/:id"): the share page, the same HTML shell for every id.
ShareHandler(f, p) == Answer(f, 200, NoBody)

(***************************************************************************)
(* SpecGen: the servers started with or without OPENAI_API_KEY, clients    *)
(* using the generate endpoints on up to MaxGen connections, the store     *)
(* endpoints, the share page and the PDF endpoints.  pending[k] is the     *)
(* generate route whose request on connection k waits for the Copywriter;  *)
(* output is the answer sent last by a generate or the list endpoint.      *)
(* One PDF request is followed at a time, any step of which may fail; the  *)
(* store holds up to MaxGenStore records.                                  *)
(***************************************************************************)
GenBodies == {[id |-> JsStr("a"), title |-> JsStr("Cozy")], NoBody}
GenParams == {"a"}
GenSlots == 1..MaxGen
GenerateRoutes == {"generate", "module generate", "router generate", "generate-listing"}

InitGen ==
  /\ hasOpenAIKey \in BOOLEAN
  /\ aiHits = 0
  /\ copywriterCalled = FALSE
  /\ savedListings = ArrayDoc(<<>>)
  /\ fs = MissingFile(TRUE)
  /\ last = NoLast
  /\ saved = [x \in GoodIds |-> NoBody]
  /\ serial = <<>>
  /\ pending = [k \in GenSlots |-> "idle"]
  /\ overlap = FALSE
  /\ pdf = [r \in PdfReqs |-> PdfIdle]
  /\ input = <<>>
  /\ output = NoOutput

GenerateOutput(route, status) ==
  [call |-> route, threw |-> FALSE, status |-> status, val |-> <<>>]

\* A generate request to the main server arrives on connection k: aiLimiter
\* counts it and answers it when it is over the limit, else the handler runs
\* up to its answer or its await.  (Past the limit the count is left as it
\* is: every further request of the window is answered the same.)
GenerateStart(k, body) ==
  /\ pending[k] = "idle"
  /\ aiHits' = IF RateLimited(aiHits) THEN aiHits ELSE aiHits + 1
  /\ IF RateLimited(aiHits + 1)
     THEN /\ output' = GenerateOutput("generate", 429)
          /\ UNCHANGED <<fs, pending, copywriterCalled>>
     ELSE LET a == GenerateHandler(fs, hasOpenAIKey, body) IN
          /\ fs' = a.fs
          /\ copywriterCalled' = (copywriterCalled \/ a.called)
          /\ IF a.status = 0
             THEN /\ pending' = [pending EXCEPT ![k] = "generate"]
                  /\ output' = output
             ELSE /\ pending' = pending
                  /\ output' = GenerateOutput("generate", a.status)
  /\ UNCHANGED <<last, saved, serial, overlap, pdf, input,
                 savedListings, hasOpenAIKey>>

\* windowMs has passed: the limiter forgets the requests of the window.
WindowExpires ==
  /\ aiHits > 0
  /\ aiHits' = 0
  /\ UNCHANGED <<fs, last, saved, serial, pending, overlap, pdf, input, output,
                 savedListings, hasOpenAIKey, copywriterCalled>>

\* The same for the ES-module server's POST /api/listings/generate.
ModuleGenerateStart(k, body) ==
  /\ pending[k] = "idle"
  /\ LET a == ModuleGenerateHandler(fs, hasOpenAIKey, body) IN
     /\ fs' = a.fs
     /\ copywriterCalled' = (copywriterCalled \/ a.called)
     /\ IF a.status = 0
        THEN /\ pending' = [pending EXCEPT ![k] = "module generate"]
             /\ output' = output
        ELSE /\ pending' = pending
             /\ output' = GenerateOutput("module generate", a.status)
  /\ UNCHANGED <<last, saved, serial, overlap, pdf, input,
                 savedListings, hasOpenAIKey, aiHits>>

\* The same for the router's POST /generate.
RouterGenerateStart(k, body) ==
  /\ pending[k] = "idle"
  /\ LET a == RouterGenerateHandler(fs, hasOpenAIKey, body) IN
     /\ fs' = a.fs
     /\ copywriterCalled' = (copywriterCalled \/ a.called)
     /\ IF a.status = 0
        THEN /\ pending' = [pending EXCEPT ![k] = "router generate"]
             /\ output' = output
        ELSE /\ pending' = pending
             /\ output' = GenerateOutput("router generate", a.status)
  /\ UNCHANGED <<last, saved, serial, overlap, pdf, input,
                 savedListings, hasOpenAIKey, aiHits>>

\* The same for index.js's POST /generate-listing.
GenerateListingStart(k, body) ==
  /\ pending[k] = "idle"
  /\ LET a == GenerateListingHandler(fs, hasOpenAIKey, body) IN
     /\ fs' = a.fs
     /\ copywriterCalled' = (copywriterCalled \/ a.called)
     /\ IF a.status = 0
        THEN /\ pending' = [pending EXCEPT ![k] = "generate-listing"]
             /\ output' = output
        ELSE /\ pending' = pending
             /\ output' = GenerateOutput("generate-listing", a.status)
  /\ UNCHANGED <<last, saved, serial, overlap, pdf, input,
                 savedListings, hasOpenAIKey, aiHits>>

\* The Copywriter settles for the request on connection k, which is answered.
GenerateSettle(k, copywriter) ==
  /\ pending[k] \in GenerateRoutes
  /\ pending' = [pending EXCEPT ![k] = "idle"]
  /\ output' = GenerateOutput(pending[k],
                 IF pending[k] = "generate" THEN GenerateAnswer(copywriter)
                 ELSE IF copywriter THEN 200 ELSE CatchStatus(pending[k]))
  /\ UNCHANGED <<fs, last, saved, serial, overlap, pdf, input,
                 savedListings, hasOpenAIKey, aiHits, copywriterCalled>>

SharePage(p) ==
  /\ LET a == ShareHandler(fs, p) IN
     /\ fs' = a.fs
     /\ last' = Last("share", NoBody, p, a, 0)
  /\ UNCHANGED <<saved, serial, pending, overlap, pdf, input, output>>
  /\ UNCHANGED restVars

NextGen ==
  \/ \E k \in GenSlots, body \in GenerateInputs : GenerateStart(k, body)
  \/ \E k \in GenSlots, body \in GenerateInputs : ModuleGenerateStart(k, body)
  \/ \E k \in GenSlots, body \in GenerateInputs : RouterGenerateStart(k, body)
  \/ \E k \in GenSlots, body \in GenerateInputs : GenerateListingStart(k, body)
  \/ \E k \in GenSlots, c \in BOOLEAN : GenerateSettle(k, c)
  \/ WindowExpires
  \/ \E listing \in GenBodies :
       /\ SaveValidates(listing) => Len(Stored(fs)) < MaxGenStore
       /\ Save(listing)
  \/ \E p \in GenParams : Delete(p)
  \/ \E p \in GenParams : Get(p)
  \/ List
  \/ \E p \in GenParams : SharePage(p)
  \/ \E b \in BOOLEAN : PdfPostStart(1, b)
  \/ \E p \in GenParams, b \in BOOLEAN : PdfByIdStart(1, p, b)
  \/ \E ok \in BOOLEAN : Launch(1, ok)
  \/ \E ok \in BOOLEAN : NewPage(1, ok)
  \/ \E ok \in BOOLEAN : SetContent(1, ok)
  \/ \E ok \in BOOLEAN : ExportPdf(1, ok)
  \/ CloseBrowser(1)

SpecGen == InitGen /\ [][NextGen]_vars

\* No store or render endpoint has answered 503: not the request handled last
\* (save, delete, get, share page), not the list endpoint, not a PDF request.
NeverUnavailable ==
  /\ last.status # 503
  /\ output.call = "list" => output.status # 503
  /\ \A r \in PdfReqs : \A i \in 1..Len(pdf[r].responses) :
       pdf[r].responses[i].status # 503

\* C13: with no credential every answer of a generate endpoint is 503 and
\* leaves the store file as it is, no generate request waits for the
\* Copywriter and the Copywriter is never called; no store or render endpoint
\* answers 503.
C13_NoCredentialAlways503 ==
  [][~hasOpenAIKey =>
       /\ (output'.call \in GenerateRoutes /\ output' # output) =>
            (output'.status = 503 /\ fs' = fs)
       /\ \A k \in GenSlots : pending'[k] = "idle"
       /\ ~copywriterCalled'
       /\ NeverUnavailable']_vars

\* C13, for the main server alone: with no credential its handler answers
\* 503 at once and leaves the store file as it is; a request is answered
\* otherwise only by the limiter ahead of the handler.
C13_MainAnswers503 ==
  [][(~hasOpenAIKey /\ output'.call = "generate" /\ output' # output) =>
       /\ output'.status = (IF RateLimited(aiHits + 1) THEN 429 ELSE 503)
       /\ fs' = fs]_vars

(***************************************************************************)
(* The in-memory variant (src/routes/listings.js): savedListings is the    *)
(* value the routes work on, listings.json (fs) the file it is loaded from *)
(* at start-up and written to after every change.  savedListings is what   *)
(* JSON.parse gave (an array of entries, or a JSON object when the file    *)
(* held one: there is no Array.isArray test), kept as the document it      *)
(* serialises to.                                                          *)
(***************************************************************************)
MaxMem == 3

\* Load listings from file on startup
\* (the console.log after JSON.parse reads savedListings.length inside the
\* try: on null it throws, and the catch sets []).
loadListingsFromFile(f) ==
  IF f.exists
  THEN IF ~f.readable THEN ArrayDoc(<<>>)
       ELSE LET parsed == JSONparse(f.doc) IN
            IF parsed.threw THEN ArrayDoc(<<>>)
            ELSE IF parsed.val.json = "null" THEN ArrayDoc(<<>>)
            ELSE parsed.val
  ELSE ArrayDoc(<<>>)

\* Save listings to file: writeFileSync creates the file when there is none
\* and replaces the content (not the mode) of one that is there; a failed
\* write is logged and nothing else.
saveListingsToFile(f, listings) ==
  IF ~f.writable THEN f
  ELSE IF f.exists THEN [f EXCEPT !.doc = listings]
  ELSE [f EXCEPT !.exists = TRUE, !.readable = TRUE, !.doc = listings]

\* The entry /save-listing builds; createdAt is the time of the request.
Entry(address, tone, listingText) ==
  [address |-> address, tone |-> tone, listingText |-> listingText,
   createdAt |-> "now"]

\* req.body.index: undefined, null, a string, or a number, kept as the number
\* of halves it is (1 is 0.5, 2 is 1).
IndexVal(t, halves) == [t |-> t, halves |-> halves]

\* ToIntegerOrInfinity(index): the number truncated towards zero.
Truncated(index) ==
  IF index.halves >= 0 THEN index.halves \div 2 ELSE -((-index.halves) \div 2)

\* Array.prototype.splice(index, 1): the start is the truncated index, counted
\* from the end when negative and clamped to 0..length; the element there, if
\* any, is removed.
splice(items, index) ==
  LET n == Truncated(index)
      len == Len(items)
      start == IF n < 0 THEN (IF len + n < 0 THEN 0 ELSE len + n)
               ELSE (IF n > len THEN len ELSE n) IN
  IF start >= len THEN items
  ELSE SubSeq(items, 1, start) \o SubSeq(items, start + 2, len)

\* savedListings.length: a number for an array, a string and an object with
\* a length key; undefined otherwise.
HasLength(v) ==
  \/ v.json \in {"array", "string"}
  \/ (v.json = "object" /\ v.data # <<>>)
LengthOf(v) == IF v.json = "object" THEN v.data[1].val ELSE Len(v.data)

MemAnswer(f, listings, status) == [fs |-> f, savedListings |-> listings, status |-> status]

\* app.post("/save-listing"): on a savedListings that is not an array, push
\* is not a function; the TypeError reaches Express's default error handler,
\* which answers 500.
SaveListingHandler(f, listings, body) ==
  IF ~Truthy(body.address) \/ ~Truthy(body.tone) \/ ~Truthy(body.listingText)
  THEN MemAnswer(f, listings, 400)
  ELSE IF ~IsArray(listings) THEN MemAnswer(f, listings, 500)
  ELSE LET pushed == ArrayDoc(Append(listings.data,
                       Entry(body.address, body.tone, body.listingText))) IN
       MemAnswer(saveListingsToFile(f, pushed), pushed, 200)

\* app.post("/delete-listing"): when savedListings has no length,
\* index >= undefined is false; on a savedListings that is not an array,
\* splice is not a function (500).
DeleteListingHandler(f, listings, index) ==
  IF \/ index.t = "undef"
     \/ index.t # "num"
     \/ index.halves < 0
     \/ (HasLength(listings) /\ index.halves >= 2 * LengthOf(listings))
  THEN MemAnswer(f, listings, 400)
  ELSE IF ~IsArray(listings) THEN MemAnswer(f, listings, 500)
  ELSE LET spliced == ArrayDoc(splice(listings.data, index)) IN
       MemAnswer(saveListingsToFile(f, spliced), spliced, 200)

(***************************************************************************)
(* SpecMem: the in-memory variant started on a listings.json it may write  *)
(* (missing, not JSON, null, an object, a string, or an array of entries), *)
(* then /save-listing, /delete-listing and /history requests, one per step *)
(* (the handlers are synchronous).  output is the request handled last and *)
(* its answer.                                                             *)
(***************************************************************************)
MemBodies ==
  [address : {JsStr("A"), JsStr("B"), JsNum("5"), JsObject, JsStr(""), JsUndef},
   tone : {JsStr("MLS"), JsUndef},
   listingText : {JsStr("T"), JsStr("")}]
MemEntries == {Entry(JsStr(a), JsStr("MLS"), JsStr("T")) : a \in {"A", "B"}}
\* Start-up files: none, one that is not JSON, null, a JSON object with or
\* without a length key, a JSON string, or a JSON array of entries.
MemFiles ==
  {MissingFile(TRUE)} \cup
  {File(TRUE, TRUE, TRUE, d) :
     d \in {InvalidDoc, NullDoc, ObjectDoc, ObjectWithLength(1), StringDoc(<<"a">>)}} \cup
  {File(TRUE, TRUE, TRUE, ArrayDoc(q)) : q \in SeqsUpTo(MemEntries, 1)}
Indexes ==
  {IndexVal("undef", 0), IndexVal("null", 0), IndexVal("str", 0)} \cup
  {IndexVal("num", h) : h \in -2..(2 * MaxMem + 1)}
NoIndex == IndexVal("undef", 0)
NoMemBody == [address |-> JsUndef, tone |-> JsUndef, listingText |-> JsUndef]

InitMem ==
  /\ fs \in MemFiles
  /\ savedListings = loadListingsFromFile(fs)
  /\ output = [call |-> "none", status |-> 0, body |-> NoMemBody, index |-> NoIndex]
  /\ hasOpenAIKey = FALSE
  /\ aiHits = 0
  /\ copywriterCalled = FALSE
  /\ last = NoLast
  /\ saved = [x \in GoodIds |-> NoBody]
  /\ serial = <<>>
  /\ pending = <<>>
  /\ overlap = FALSE
  /\ pdf = <<>>
  /\ input = <<>>

memFrame ==
  <<last, saved, serial, pending, overlap, pdf, input, hasOpenAIKey, aiHits,
    copywriterCalled>>

SaveListing(body) ==
  /\ IsArray(savedListings) => Len(savedListings.data) < MaxMem
  /\ LET a == SaveListingHandler(fs, savedListings, body) IN
     /\ fs' = a.fs
     /\ savedListings' = a.savedListings
     /\ output' = [call |-> "save-listing", status |-> a.status, body |-> body,
                   index |-> NoIndex]
  /\ UNCHANGED memFrame

DeleteListing(index) ==
  /\ LET a == DeleteListingHandler(fs, savedListings, index) IN
     /\ fs' = a.fs
     /\ savedListings' = a.savedListings
     /\ output' = [call |-> "delete-listing", status |-> a.status,
                   body |-> NoMemBody, index |-> index]
  /\ UNCHANGED memFrame

\* app.get("/history")
History ==
  /\ output' = [call |-> "history", status |-> 200, body |-> NoMemBody,
                index |-> NoIndex]
  /\ UNCHANGED <<fs, savedListings>>
  /\ UNCHANGED memFrame

NextMem ==
  \/ \E body \in MemBodies : SaveListing(body)
  \/ \E index \in Indexes : DeleteListing(index)
  \/ History

SpecMem == InitMem /\ [][NextMem]_vars

\* A field of the body that is there and is not the empty string.
NonEmpty(x) == x.t \notin {"undef", "null"} /\ ~(x.t = "str" /\ x.v = "")

\* C17: after a /save-listing or /delete-listing answered with success the
\* file holds the in-memory sequence; a save is accepted only with non-empty
\* address, tone and listingText and puts its entry at the end; a delete is
\* accepted only for an integer index from 0 to length-1 and removes the entry
\* at that index and no other; a request answered 400 leaves the sequence and
\* the file as they were.
C17_FileFollowsMemory ==
  [][output'.call \in {"save-listing", "delete-listing"} =>
       LET old == savedListings.data
           new == savedListings'.data IN
       /\ output'.status = 200 =>
            (fs'.exists /\ fs'.doc = savedListings' /\ IsArray(savedListings'))
       /\ (output'.call = "save-listing" /\ output'.status = 200) =>
            /\ NonEmpty(output'.body.address)
            /\ NonEmpty(output'.body.tone)
            /\ NonEmpty(output'.body.listingText)
            /\ Len(new) = Len(old) + 1
            /\ SubSeq(new, 1, Len(old)) = old
            /\ new[Len(new)].address = output'.body.address
            /\ new[Len(new)].tone = output'.body.tone
            /\ new[Len(new)].listingText = output'.body.listingText
       /\ (output'.call = "delete-listing" /\ output'.status = 200) =>
            /\ output'.index.t = "num"
            /\ output'.index.halves % 2 = 0
            /\ LET i == output'.index.halves \div 2 IN
               /\ i \in 0..(Len(old) - 1)
               /\ new = SubSeq(old, 1, i) \o SubSeq(old, i + 2, Len(old))
       /\ output'.status = 400 => (savedListings' = savedListings /\ fs' = fs)]_vars

====
